---- MODULE Spec2Model ----
(***************************************************************************)
(* ColourSorter.ino: an Arduino sketch that loads one candy, measures its  *)
(* colour, picks the nearest colour profile and drives two servos (the     *)
(* selector and the sorter) to deliver it.                                 *)
(*                                                                         *)
(* Numbers.  Angles and delays are the sketch's ints.  Colour channels are *)
(* floats in the sketch.  A channel value is named here by an integer      *)
(* count of 1/20 (so 89.2 is 1784); the float the sketch holds for it is   *)
(* the single-precision number nearest to it.  A float is carried as its   *)
(* IEEE 754 binary32 bit pattern read as an integer, negated for a         *)
(* negative number: 0 is 0.0 and the order of the integers is the order of *)
(* the floats.  Subtraction, multiplication, addition and square root      *)
(* round to nearest, ties to even, as the sketch's arithmetic does; the    *)
(* values of the sketch stay far from overflow and from the subnormal      *)
(* range, which are left out.                                              *)
(***************************************************************************)
EXTENDS Integers, Sequences, FiniteSets, TLC

\* ------------------------------------------------------------ constants
SELECTOR_LIMIT == 180
SELECTOR_POSITIONS == 3
SELECTOR_SPACING == SELECTOR_LIMIT \div (SELECTOR_POSITIONS - 1)
SELECTOR_POS_HOPPER == SELECTOR_SPACING * 0
SELECTOR_POS_SENSOR == SELECTOR_SPACING * 1
SELECTOR_POS_SORTER == SELECTOR_SPACING * 2

SELECTOR_JOSTLE_DEGREES == 10
SELECTOR_JOSTLE_COUNT == 10
SELECTOR_JOSTLE_DELAY == 20

SORTER_LIMIT == 180
SORTER_POSITIONS == 6
\* a slip of the divisor: one slot too many
SORTER_SPACING_perPosition == SORTER_LIMIT \div SORTER_POSITIONS
SORTER_SPACING == SORTER_LIMIT \div (SORTER_POSITIONS - 1)
SORTER_POS_YELLOW == SORTER_SPACING * 0
SORTER_POS_ORANGE == SORTER_SPACING * 1
SORTER_POS_RED == SORTER_SPACING * 2
SORTER_POS_GREEN == SORTER_SPACING * 3
SORTER_POS_PURPLE == SORTER_SPACING * 4
SORTER_POS_BLUE == SORTER_SPACING * 5

SORTER_JOSTLE_DEGREES == 4
SORTER_JOSTLE_COUNT == 10
SORTER_JOSTLE_DELAY == 20

\* default delayMs of moveSelector and moveSorter, and the delays of the
\* sensor LED and of the measurement
MOVE_DELAY == 500
LED_DELAY == 50
LED_OFF_DELAY == 100
READ_DELAY == 60

\* ------------------------------------------------------------ single precision
\* the bit above the 23 stored bits of a mantissa
Hidden == 2^23

Exponent(bits) == bits \div Hidden
Mantissa(bits) == Hidden + (bits % Hidden)

\* q, plus one when the remainder r is above half, or is half and q is odd
RoundEven(q, r, half) == IF r > half \/ (r = half /\ q % 2 = 1) THEN q + 1 ELSE q

\* the bit pattern of mantissa * 2^(exponent - 150); a mantissa of 2^24 carries
\* into the exponent
Pack(exponent, mantissa) == exponent * Hidden + (mantissa - Hidden)

\* the float nearest to x / (20 * 2^k), for 0 < x < 20 * 2^24
RECURSIVE Scaled(_, _)
Scaled(x, k) ==
  IF x < 20 * Hidden THEN Scaled(2 * x, k + 1)
  ELSE Pack(150 - k, RoundEven(x \div 20, x % 20, 10))

\* the float nearest to twentieths / 20: a literal of the table, or a channel
\* value of the sensor (twentieths >= 0)
float(twentieths) == IF twentieths = 0 THEN 0 ELSE Scaled(twentieths, 0)

\* m shifted right by d bits, the bits shifted out kept as a sticky low bit
ShiftRightSticky(m, d) ==
  IF d >= 27 THEN 1
  ELSE LET q == m \div 2^d
           r == m % 2^d
       IN  IF r = 0 \/ q % 2 = 1 THEN q ELSE q + 1

\* rounds a mantissa that carries three extra low bits
Round3(exponent, m) == Pack(exponent, RoundEven(m \div 8, m % 8, 4))

\* shifts the mantissa up to 27 bits, then rounds
RECURSIVE Normalized(_, _)
Normalized(exponent, m) ==
  IF m < 2^26 THEN Normalized(exponent - 1, 2 * m) ELSE Round3(exponent, m)

\* a - b for floats a > b > 0
float_sub_greater(a, b) ==
  Normalized(Exponent(a),
             Mantissa(a) * 8 - ShiftRightSticky(Mantissa(b) * 8, Exponent(a) - Exponent(b)))

\* a - b for floats a >= 0 and b >= 0
float_sub(a, b) ==
  IF a = b THEN 0
  ELSE IF b = 0 THEN a
  ELSE IF a = 0 THEN 0 - b
  ELSE IF a > b THEN float_sub_greater(a, b)
  ELSE 0 - float_sub_greater(b, a)

\* a + b for floats a >= 0 and b >= 0
float_add(a, b) ==
  IF a = 0 THEN b
  ELSE IF b = 0 THEN a
  ELSE LET x == IF a < b THEN b ELSE a
           y == IF a < b THEN a ELSE b
           m == Mantissa(x) * 8 + ShiftRightSticky(Mantissa(y) * 8, Exponent(x) - Exponent(y))
       IN  IF m >= 2^27 THEN Round3(Exponent(x) + 1, ShiftRightSticky(m, 1))
           ELSE Round3(Exponent(x), m)

Magnitude(x) == IF x < 0 THEN 0 - x ELSE x

\* a * b: the 48-bit product of the mantissas, from 12-bit halves
float_mul(a, b) ==
  IF a = 0 \/ b = 0 THEN 0
  ELSE LET x == Magnitude(a)
           y == Magnitude(b)
           x1 == Mantissa(x) \div 4096
           x0 == Mantissa(x) % 4096
           y1 == Mantissa(y) \div 4096
           y0 == Mantissa(y) % 4096
           low == x0 * y0
           mid == x1 * y0 + x0 * y1 + (low \div 4096)
           high == x1 * y1 + (mid \div 4096)
           rest == (mid % 4096) * 4096 + (low % 4096)
           exponent == Exponent(x) + Exponent(y) - 127
           product == IF high >= Hidden
                      THEN Pack(exponent + 1, RoundEven(high, rest, Hidden))
                      ELSE Pack(exponent, RoundEven(2 * high + (rest \div Hidden), rest % Hidden, 2^22))
       IN  IF (a < 0) = (b < 0) THEN product ELSE 0 - product

\* the square root of the 48-bit number hi * 2^24 + lo, two bits a step, and
\* what is left of the number below the square of the root
RECURSIVE RootFrom(_, _, _, _, _)
RootFrom(hi, lo, i, root, rem) ==
  IF i = 24 THEN << root, rem >>
  ELSE LET pair == IF i < 12 THEN (hi \div 4^(11 - i)) % 4 ELSE (lo \div 4^(23 - i)) % 4
           r == 4 * rem + pair
           t == 4 * root + 1
       IN  IF r >= t THEN RootFrom(hi, lo, i + 1, 2 * root + 1, r - t)
           ELSE RootFrom(hi, lo, i + 1, 2 * root, r)

\* sqrt(a) for a float a >= 0; the root is rounded up when what is left of the
\* number is above it
float_sqrt(a) ==
  IF a = 0 THEN 0
  ELSE LET even == Exponent(a) % 2 = 1
           hi == IF even THEN Mantissa(a) \div 2 ELSE Mantissa(a)
           lo == IF even THEN (Mantissa(a) % 2) * Hidden ELSE 0
           s == RootFrom(hi, lo, 0, 0, 0)
       IN  Pack((Exponent(a) + 127) \div 2, IF s[2] > s[1] THEN s[1] + 1 ELSE s[1])

\* ------------------------------------------------------------ colour table
\* a channel value given in tenths (89.2 is F(892)), in units of 1/20
F(tenths) == 2 * tenths

\* a COLOR_PROFILE: the floats its initialiser is rounded to, its slot angle and
\* its name; literal keeps the decimal numbers of the initialiser, in twentieths
Profile(r, g, b, pos, nm) ==
  [red |-> float(F(r)), green |-> float(F(g)), blue |-> float(F(b)),
   sorterPos |-> pos, name |-> nm, literal |-> << F(r), F(g), F(b) >>]

\* COLOR_PROFILE colors[]; colors[i] of the sketch is colors[i + 1] here
colors ==
  << Profile( 892, 1023,  476, SORTER_POS_YELLOW, "Yellow M&M"),
     Profile( 881, 1067,  407, SORTER_POS_YELLOW, "Yellow Skittle"),
     Profile(1166,  698,  560, SORTER_POS_ORANGE, "Orange M&M"),
     Profile(1250,  694,  459, SORTER_POS_ORANGE, "Orange Skittle"),
     Profile( 894,  832,  726, SORTER_POS_RED,    "Red M&M"),
     Profile( 928,  837,  683, SORTER_POS_RED,    "Red Skittle"),
     Profile( 572, 1180,  649, SORTER_POS_GREEN,  "Green M&M"),
     Profile( 573, 1259,  542, SORTER_POS_GREEN,  "Green Skittle"),
     Profile( 685,  922,  789, SORTER_POS_PURPLE, "Brown M&M"),
     Profile( 670,  926,  804, SORTER_POS_PURPLE, "Purple Skittle"),
     Profile( 397,  901, 1125, SORTER_POS_BLUE,   "Blue M&M") >>

COLORS == Len(colors)

\* the profile a COLOR_PROFILE pointer &colors[i] points to
ProfileAt(i) == colors[i + 1]

\* ------------------------------------------------------------ classifier
\* the macro sq of Arduino.h
sq(x) == float_mul(x, x)

\* colorProfileDistance: the float the sketch returns, for a reading given in
\* twentieths
colorProfileDistance(profile, red, green, blue) ==
  float_sqrt(float_add(float_add(sq(float_sub(float(red), profile.red)),
                                 sq(float_sub(float(green), profile.green))),
                       sq(float_sub(float(blue), profile.blue))))

\* a change of the sentinel: a "no best yet" value that no distance can take
NULL_negative == 0 - 1

\* float bestDistance = NULL: the "no best yet" value is the number 0
NULL == 0

\* the value of the pointer bestProfile before its first assignment
UNINITIALIZED == -1

\* the condition of line 109
TakesProfile(distance, bestDistance) ==
  bestDistance = NULL \/ distance < bestDistance

RECURSIVE bestColorProfileFrom(_, _, _, _, _, _)
bestColorProfileFrom(i, bestDistance, bestProfile, red, green, blue) ==
  IF i < COLORS
  THEN LET distance == colorProfileDistance(ProfileAt(i), red, green, blue)
       IN  IF TakesProfile(distance, bestDistance)
           THEN bestColorProfileFrom(i + 1, distance, i, red, green, blue)
           ELSE bestColorProfileFrom(i + 1, bestDistance, bestProfile, red, green, blue)
  ELSE bestProfile

\* the index of the profile the sketch's bestColorProfile returns a pointer to
bestColorProfile(red, green, blue) ==
  bestColorProfileFrom(0, NULL, UNINITIALIZED, red, green, blue)

\* ------------------------------------------------------------ bounds and inputs
\* readings lie up to NoiseMax twentieths off a reference point, per channel
NoiseMax == 1
\* the jostle operations are also run alone, with count up to MaxJostleCount
\* and an amplitude up to MaxJostleDegrees
MaxJostleCount == 3
MaxJostleDegrees == 10

\* the reading that equals the reference point of colors[k]
Reference(k) == ProfileAt(k).literal

ReferenceReadings == { Reference(k) : k \in 0..(COLORS - 1) }

NoisyReadings ==
  { <<p[1] + a, p[2] + b, p[3] + c>> :
      p \in ReferenceReadings, a \in -NoiseMax..NoiseMax,
      b \in -NoiseMax..NoiseMax, c \in -NoiseMax..NoiseMax }

\* readings on or next to the boundary between the two nearest profiles.
\* First, readings for which the sketch computes the same float for both
\* profiles.  Second, readings whose decimal numbers are equidistant from the
\* decimal numbers of both profiles, while the floats are not.  Third, readings
\* whose floats are, in exact arithmetic, at the same distance from the floats
\* of both profiles.
TieReadings ==
  { <<1757, 2086, 883>>, <<1793, 1857, 1161>>, <<2412, 1409, 1015>>,
    <<1807, 1642, 1394>>, <<1588, 1770, 1522>>, <<1132, 2450, 1199>>,
    <<1934, 1733, 1505>>, <<1462, 1525, 1454>>, <<1971, 1691, 597>>,
    <<1860, 1660, 1438>>, <<2404, 1241, 1015>>, <<1820, 1860, 1159>>,
    <<1052, 1425, 750>> }

\* readings far from every profile, among them the sensor's all-zero reading
FarReadings ==
  { <<0, 0, 0>>, <<5100, 0, 0>>, <<0, 5100, 0>>, <<0, 0, 5100>>,
    <<1700, 1700, 1700>>, <<5100, 5100, 5100>> }

Readings == NoisyReadings \cup TieReadings \cup FarReadings

\* what colorProfileDistance and bestColorProfile return for each reading the
\* sensor can give, computed once
Distances ==
  [r \in Readings |->
     [k \in 0..(COLORS - 1) |-> colorProfileDistance(ProfileAt(k), r[1], r[2], r[3])]]

Classification == [r \in Readings |-> bestColorProfile(r[1], r[2], r[3])]

\* the angles the jostle operations are given when run alone, and the angles a
\* mechanism may hold before the call
JostleTargets == { 0, 36, 90, 144, 176, 179, 180 }

\* ------------------------------------------------------------ state
VARIABLES
  pc,           \* the statement of setup(), loop() or a callee that runs next
  ret,          \* where the running jostle operation returns to
  frame,        \* the parameters and locals of the jostle operation called last
  selectorPos,  \* the last angle written to the selector servo
  sorterPos,    \* the last angle written to the sorter servo
  selectorLog,  \* the angles written to the selector since the cycle (or call) began
  sorterLog,    \* the angles written to the sorter since the cycle (or call) began
  settling,     \* the longest delay (ms) a hardware command is owed and has not had
  led,          \* the level of PIN_LED
  attached,     \* the servos attached to their pins
  sensorFound,  \* what tcs.begin() returned
  reading,      \* loop()'s locals red, green, blue
  colorProfile, \* loop()'s local colorProfile, as an index into colors
  serial        \* the lines printed to Serial since the cycle began

vars == << pc, ret, frame, selectorPos, sorterPos, selectorLog, sorterLog,
           settling, led, attached, sensorFound, reading, colorProfile, serial >>

\* no angle has been written to the servo yet
NoAngle == -1000

NoFrame == [pos |-> 0, jostle |-> 0, count |-> 0, delayMs |-> 0, centerPos |-> 0, i |-> 0]
NoReading == << 0, 0, 0 >>

\* the state at power-on, before setup() runs
Init ==
  /\ pc = "setup"
  /\ ret = "none"
  /\ frame = NoFrame
  /\ selectorPos = NoAngle
  /\ sorterPos = NoAngle
  /\ selectorLog = << >>
  /\ sorterLog = << >>
  /\ settling = 0
  /\ led = FALSE
  /\ attached = {}
  /\ sensorFound = FALSE
  /\ reading = NoReading
  /\ colorProfile = UNINITIALIZED
  /\ serial = << >>

\* ------------------------------------------------------------ primitives
\* selector.write(pos) of moveSelector; the delay of the call is owed
selectorWrite(pos, delayMs) ==
  /\ selectorPos' = pos
  /\ selectorLog' = Append(selectorLog, pos)
  /\ settling' = delayMs
  /\ UNCHANGED << sorterPos, sorterLog >>

\* sorter.write(pos) of moveSorter; the delay of the call is owed
sorterWrite(pos, delayMs) ==
  /\ sorterPos' = pos
  /\ sorterLog' = Append(sorterLog, pos)
  /\ settling' = delayMs
  /\ UNCHANGED << selectorPos, selectorLog >>

\* delay(ms): the time owed is reduced by ms
delay(ms) ==
  /\ settling' = IF settling > ms THEN settling - ms ELSE 0
  /\ UNCHANGED << selectorPos, sorterPos, selectorLog, sorterLog >>

\* a slip of the levels: on ? LOW : HIGH
ledWrite_inverted(on, delayMs) ==
  /\ led' = ~ on
  /\ settling' = IF settling > delayMs THEN settling ELSE delayMs
  /\ UNCHANGED << selectorPos, sorterPos, selectorLog, sorterLog >>

\* digitalWrite(PIN_LED, on ? HIGH : LOW) of enableSensorLed; its delay is owed
\* beside what an earlier command is still owed
ledWrite(on, delayMs) ==
  /\ led' = on
  /\ settling' = IF settling > delayMs THEN settling ELSE delayMs
  /\ UNCHANGED << selectorPos, sorterPos, selectorLog, sorterLog >>

servos == << selectorPos, sorterPos, selectorLog, sorterLog >>
locals == << reading, colorProfile, serial >>
board == << attached, sensorFound >>

\* ------------------------------------------------------------ setup()
setup_attach ==
  /\ pc = "setup"
  /\ serial' = << [line |-> "Skittles Colour Sorter"] >>
  /\ attached' = { "selector", "sorter" }
  /\ pc' = "setup_tcs_begin"
  /\ UNCHANGED << ret, frame, servos, settling, led, sensorFound, reading, colorProfile >>

\* tcs.begin(): the result is not looked at
setup_tcs_begin ==
  /\ pc = "setup_tcs_begin"
  /\ \E found \in BOOLEAN : sensorFound' = found
  /\ pc' = "setup_led"
  /\ UNCHANGED << ret, frame, servos, settling, led, attached, locals >>

setup_led_write ==
  /\ pc = "setup_led"
  /\ ledWrite(FALSE, LED_DELAY)
  /\ pc' = "setup_led_delay"
  /\ UNCHANGED << ret, frame, board, locals >>

setup_led_delay ==
  /\ pc = "setup_led_delay"
  /\ delay(LED_DELAY)
  /\ pc' = "loop"
  /\ UNCHANGED << ret, frame, led, board, locals >>

\* ------------------------------------------------------------ jostleSorter
\* a slip of the boundary test: the centre is never moved off the limit
sorterCenterPos_noLimit(pos, jostle) == pos

\* int centerPos = (pos < SORTER_LIMIT) ? pos : pos - jostle;
sorterCenterPos(pos, jostle) == IF pos < SORTER_LIMIT THEN pos ELSE pos - jostle

\* entry: centerPos is computed, i = 0 and the loop condition is tested
jostleSorter_enter ==
  /\ pc = "jostleSorter"
  /\ frame' = [frame EXCEPT !.centerPos = sorterCenterPos(frame.pos, frame.jostle), !.i = 0]
  /\ pc' = IF 0 < frame.count THEN "jostleSorter_up" ELSE "jostleSorter_final"
  /\ UNCHANGED << ret, servos, settling, led, board, locals >>

\* moveSorter(centerPos + jostle, delayMs): the write
jostleSorter_up_write ==
  /\ pc = "jostleSorter_up"
  /\ sorterWrite(frame.centerPos + frame.jostle, frame.delayMs)
  /\ pc' = "jostleSorter_up_delay"
  /\ UNCHANGED << ret, frame, led, board, locals >>

\* moveSorter(centerPos + jostle, delayMs): the delay
jostleSorter_up_delay ==
  /\ pc = "jostleSorter_up_delay"
  /\ delay(frame.delayMs)
  /\ pc' = "jostleSorter_down"
  /\ UNCHANGED << ret, frame, led, board, locals >>

\* moveSorter(centerPos - jostle, delayMs): the write
jostleSorter_down_write ==
  /\ pc = "jostleSorter_down"
  /\ sorterWrite(frame.centerPos - frame.jostle, frame.delayMs)
  /\ pc' = "jostleSorter_down_delay"
  /\ UNCHANGED << ret, frame, led, board, locals >>

\* moveSorter(centerPos - jostle, delayMs): the delay; then i++ and the loop test
jostleSorter_down_delay ==
  /\ pc = "jostleSorter_down_delay"
  /\ delay(frame.delayMs)
  /\ frame' = [frame EXCEPT !.i = frame.i + 1]
  /\ pc' = IF frame.i + 1 < frame.count THEN "jostleSorter_up" ELSE "jostleSorter_final"
  /\ UNCHANGED << ret, led, board, locals >>

\* moveSorter(pos, delayMs) after the loop: the write
jostleSorter_final_write ==
  /\ pc = "jostleSorter_final"
  /\ sorterWrite(frame.pos, frame.delayMs)
  /\ pc' = "jostleSorter_final_delay"
  /\ UNCHANGED << ret, frame, led, board, locals >>

\* moveSorter(pos, delayMs) after the loop: the delay; then the return
jostleSorter_final_delay ==
  /\ pc = "jostleSorter_final_delay"
  /\ delay(frame.delayMs)
  /\ pc' = ret
  /\ ret' = "none"
  /\ UNCHANGED << frame, led, board, locals >>

\* ------------------------------------------------------------ jostleSelector
\* int centerPos = (pos < SELECTOR_LIMIT) ? pos : pos - jostle;  (never read)
selectorCenterPos(pos, jostle) == IF pos < SELECTOR_LIMIT THEN pos ELSE pos - jostle

\* entry: centerPos is computed, i = 0 and the loop condition is tested; with
\* count = 0 the function returns at once
jostleSelector_enter ==
  /\ pc = "jostleSelector"
  /\ IF 0 < frame.count
     THEN /\ frame' = [frame EXCEPT !.centerPos = selectorCenterPos(frame.pos, frame.jostle), !.i = 0]
          /\ pc' = "jostleSelector_out"
          /\ ret' = ret
     ELSE /\ frame' = [frame EXCEPT !.centerPos = selectorCenterPos(frame.pos, frame.jostle), !.i = 0]
          /\ pc' = ret
          /\ ret' = "none"
  /\ UNCHANGED << servos, settling, led, board, locals >>

\* moveSelector(pos + jostle, delayMs): the write
jostleSelector_out_write ==
  /\ pc = "jostleSelector_out"
  /\ selectorWrite(frame.pos + frame.jostle, frame.delayMs)
  /\ pc' = "jostleSelector_out_delay"
  /\ UNCHANGED << ret, frame, led, board, locals >>

\* moveSelector(pos + jostle, delayMs): the delay
jostleSelector_out_delay ==
  /\ pc = "jostleSelector_out_delay"
  /\ delay(frame.delayMs)
  /\ pc' = "jostleSelector_back"
  /\ UNCHANGED << ret, frame, led, board, locals >>

\* a slip of the copy from jostleSorter: the swing back goes below the target
jostleSelector_back_write_swing ==
  /\ pc = "jostleSelector_back"
  /\ selectorWrite(frame.centerPos - frame.jostle, frame.delayMs)
  /\ pc' = "jostleSelector_back_delay"
  /\ UNCHANGED << ret, frame, led, board, locals >>

\* moveSelector(pos, delayMs): the write
jostleSelector_back_write ==
  /\ pc = "jostleSelector_back"
  /\ selectorWrite(frame.pos, frame.delayMs)
  /\ pc' = "jostleSelector_back_delay"
  /\ UNCHANGED << ret, frame, led, board, locals >>

\* moveSelector(pos, delayMs): the delay; then i++ and the loop test; the
\* function returns when the loop ends
jostleSelector_back_delay ==
  /\ pc = "jostleSelector_back_delay"
  /\ delay(frame.delayMs)
  /\ IF frame.i + 1 < frame.count
     THEN /\ frame' = [frame EXCEPT !.i = frame.i + 1]
          /\ pc' = "jostleSelector_out"
          /\ ret' = ret
     ELSE /\ frame' = [frame EXCEPT !.i = frame.i + 1]
          /\ pc' = ret
          /\ ret' = "none"
  /\ UNCHANGED << led, board, locals >>

\* ------------------------------------------------------------ readColor
\* enableSensorLed(true): the write
readColor_led_on_write ==
  /\ pc = "readColor"
  /\ ledWrite(TRUE, LED_DELAY)
  /\ pc' = "readColor_led_on_delay"
  /\ UNCHANGED << ret, frame, board, locals >>

\* enableSensorLed(true): the delay
readColor_led_on_delay ==
  /\ pc = "readColor_led_on_delay"
  /\ delay(LED_DELAY)
  /\ pc' = "readColor_start"
  /\ UNCHANGED << ret, frame, led, board, locals >>

\* tcs.setInterrupt(false): the measurement starts and takes its time, beside
\* what an earlier command is still owed
readColor_start ==
  /\ pc = "readColor_start"
  /\ settling' = IF settling > READ_DELAY THEN settling ELSE READ_DELAY
  /\ pc' = "readColor_wait"
  /\ UNCHANGED << ret, frame, servos, led, board, locals >>

\* a slip of the wait: the sketch polls for a completion the sensor never signals
readColor_wait_forever ==
  /\ pc = "readColor_wait"
  /\ pc' = "readColor_wait"
  /\ UNCHANGED << ret, frame, servos, settling, led, board, locals >>

\* delay(60)
readColor_wait ==
  /\ pc = "readColor_wait"
  /\ delay(READ_DELAY)
  /\ pc' = "readColor_getRGB"
  /\ UNCHANGED << ret, frame, led, board, locals >>

\* tcs.getRGB(red, green, blue): the sensor gives any reading
readColor_getRGB ==
  /\ pc = "readColor_getRGB"
  /\ \E rgb \in Readings : reading' = rgb
  /\ pc' = "readColor_stop"
  /\ UNCHANGED << ret, frame, servos, settling, led, board, colorProfile, serial >>

\* tcs.setInterrupt(true)
readColor_stop ==
  /\ pc = "readColor_stop"
  /\ pc' = "readColor_led_off"
  /\ UNCHANGED << ret, frame, servos, settling, led, board, locals >>

\* enableSensorLed(false, 100): the write
readColor_led_off_write ==
  /\ pc = "readColor_led_off"
  /\ ledWrite(FALSE, LED_OFF_DELAY)
  /\ pc' = "readColor_led_off_delay"
  /\ UNCHANGED << ret, frame, board, locals >>

\* enableSensorLed(false, 100): the delay; readColor returns to loop()
readColor_led_off_delay ==
  /\ pc = "readColor_led_off_delay"
  /\ delay(LED_OFF_DELAY)
  /\ pc' = "loop_classify"
  /\ UNCHANGED << ret, frame, led, board, locals >>

\* ------------------------------------------------------------ loop()
\* loop() is entered: its locals are fresh; moveSelector(SELECTOR_POS_HOPPER): the write
loop_load_write ==
  /\ pc = "loop"
  /\ selectorPos' = SELECTOR_POS_HOPPER
  /\ selectorLog' = << SELECTOR_POS_HOPPER >>
  /\ sorterLog' = << >>
  /\ settling' = MOVE_DELAY
  /\ reading' = NoReading
  /\ colorProfile' = UNINITIALIZED
  /\ serial' = << >>
  /\ pc' = "loop_load_delay"
  /\ UNCHANGED << ret, frame, sorterPos, led, board >>

\* moveSelector(SELECTOR_POS_HOPPER): the delay
loop_load_delay ==
  /\ pc = "loop_load_delay"
  /\ delay(MOVE_DELAY)
  /\ pc' = "loop_jostleSelector"
  /\ UNCHANGED << ret, frame, led, board, locals >>

\* jostleSelector(SELECTOR_POS_HOPPER), with the default arguments
loop_jostleSelector_call ==
  /\ pc = "loop_jostleSelector"
  /\ frame' = [pos |-> SELECTOR_POS_HOPPER, jostle |-> SELECTOR_JOSTLE_DEGREES,
               count |-> SELECTOR_JOSTLE_COUNT, delayMs |-> SELECTOR_JOSTLE_DELAY,
               centerPos |-> 0, i |-> 0]
  /\ ret' = "loop_present"
  /\ pc' = "jostleSelector"
  /\ UNCHANGED << servos, settling, led, board, locals >>

\* moveSelector(SELECTOR_POS_SENSOR): the write
loop_present_write ==
  /\ pc = "loop_present"
  /\ selectorWrite(SELECTOR_POS_SENSOR, MOVE_DELAY)
  /\ pc' = "loop_present_delay"
  /\ UNCHANGED << ret, frame, led, board, locals >>

\* a slip of the wait: moveSelector returns at once after the write
loop_present_delay_noWait ==
  /\ pc = "loop_present_delay"
  /\ pc' = "readColor"
  /\ UNCHANGED << ret, frame, servos, settling, led, board, locals >>

\* a slip of the sequence: the call of readColor is left out
loop_present_delay_noRead ==
  /\ pc = "loop_present_delay"
  /\ delay(MOVE_DELAY)
  /\ pc' = "loop_classify"
  /\ UNCHANGED << ret, frame, led, board, locals >>

\* moveSelector(SELECTOR_POS_SENSOR): the delay; readColor is called next
loop_present_delay ==
  /\ pc = "loop_present_delay"
  /\ delay(MOVE_DELAY)
  /\ pc' = "readColor"
  /\ UNCHANGED << ret, frame, led, board, locals >>

\* colorProfile = bestColorProfile(red, green, blue)
loop_classify ==
  /\ pc = "loop_classify"
  /\ colorProfile' = Classification[reading]
  /\ pc' = "loop_logColor"
  /\ UNCHANGED << ret, frame, servos, settling, led, board, reading, serial >>

\* a slip of the sequence: the direct move of the sorter is left out of delivery
loop_logColor_noSorterMove ==
  /\ pc = "loop_logColor"
  /\ serial' = Append(serial,
       [line |-> "color", red |-> reading[1], green |-> reading[2], blue |-> reading[3],
        name |-> ProfileAt(colorProfile).name,
        distance |-> Distances[reading][colorProfile]])
  /\ pc' = "loop_release"
  /\ UNCHANGED << ret, frame, servos, settling, led, board, reading, colorProfile >>

\* logColor(red, green, blue, colorProfile)
loop_logColor ==
  /\ pc = "loop_logColor"
  /\ serial' = Append(serial,
       [line |-> "color", red |-> reading[1], green |-> reading[2], blue |-> reading[3],
        name |-> ProfileAt(colorProfile).name,
        distance |-> Distances[reading][colorProfile]])
  /\ pc' = "loop_sorter"
  /\ UNCHANGED << ret, frame, servos, settling, led, board, reading, colorProfile >>

\* moveSorter(colorProfile->sorterPos): the write
loop_sorter_write ==
  /\ pc = "loop_sorter"
  /\ sorterWrite(ProfileAt(colorProfile).sorterPos, MOVE_DELAY)
  /\ pc' = "loop_sorter_delay"
  /\ UNCHANGED << ret, frame, led, board, locals >>

\* moveSorter(colorProfile->sorterPos): the delay
loop_sorter_delay ==
  /\ pc = "loop_sorter_delay"
  /\ delay(MOVE_DELAY)
  /\ pc' = "loop_release"
  /\ UNCHANGED << ret, frame, led, board, locals >>

\* moveSelector(SELECTOR_POS_SORTER): the write
loop_release_write ==
  /\ pc = "loop_release"
  /\ selectorWrite(SELECTOR_POS_SORTER, MOVE_DELAY)
  /\ pc' = "loop_release_delay"
  /\ UNCHANGED << ret, frame, led, board, locals >>

\* moveSelector(SELECTOR_POS_SORTER): the delay
loop_release_delay ==
  /\ pc = "loop_release_delay"
  /\ delay(MOVE_DELAY)
  /\ pc' = "loop_jostleSorter"
  /\ UNCHANGED << ret, frame, led, board, locals >>

\* jostleSorter(colorProfile->sorterPos), with the default arguments; when it
\* returns loop() returns and is called again
loop_jostleSorter_call ==
  /\ pc = "loop_jostleSorter"
  /\ frame' = [pos |-> ProfileAt(colorProfile).sorterPos, jostle |-> SORTER_JOSTLE_DEGREES,
               count |-> SORTER_JOSTLE_COUNT, delayMs |-> SORTER_JOSTLE_DELAY,
               centerPos |-> 0, i |-> 0]
  /\ ret' = "loop"
  /\ pc' = "jostleSorter"
  /\ UNCHANGED << servos, settling, led, board, locals >>

\* ------------------------------------------------------------ specifications
jostleSorterNext ==
  \/ jostleSorter_enter
  \/ jostleSorter_up_write
  \/ jostleSorter_up_delay
  \/ jostleSorter_down_write
  \/ jostleSorter_down_delay
  \/ jostleSorter_final_write
  \/ jostleSorter_final_delay

jostleSelectorNext ==
  \/ jostleSelector_enter
  \/ jostleSelector_out_write
  \/ jostleSelector_out_delay
  \/ jostleSelector_back_write
  \/ jostleSelector_back_delay

readColorNext ==
  \/ readColor_led_on_write
  \/ readColor_led_on_delay
  \/ readColor_start
  \/ readColor_wait
  \/ readColor_getRGB
  \/ readColor_stop
  \/ readColor_led_off_write
  \/ readColor_led_off_delay

Next ==
  \/ setup_attach
  \/ setup_tcs_begin
  \/ setup_led_write
  \/ setup_led_delay
  \/ loop_load_write
  \/ loop_load_delay
  \/ loop_jostleSelector_call
  \/ jostleSelectorNext
  \/ loop_present_write
  \/ loop_present_delay
  \/ readColorNext
  \/ loop_classify
  \/ loop_logColor
  \/ loop_sorter_write
  \/ loop_sorter_delay
  \/ loop_release_write
  \/ loop_release_delay
  \/ loop_jostleSorter_call
  \/ jostleSorterNext

\* the sketch from power-on: setup(), then loop() again and again
Spec == Init /\ [][Next]_vars

\* the sketch on its processor: a statement that can run does run (delay()
\* returns, and the core calls loop() again whenever it returns)
FairSpec == Init /\ [][Next]_vars /\ WF_vars(Next)

\* a jostle operation called alone, on servos in any state, with any arguments
JostleInit ==
  /\ \/ pc = "jostleSorter" /\ ret = "jostleSorter_returned"
     \/ pc = "jostleSelector" /\ ret = "jostleSelector_returned"
  /\ \E pos \in JostleTargets, jostle \in 0..MaxJostleDegrees, count \in 0..MaxJostleCount :
       frame = [pos |-> pos, jostle |-> jostle, count |-> count,
                delayMs |-> SORTER_JOSTLE_DELAY, centerPos |-> 0, i |-> 0]
  /\ selectorPos \in JostleTargets \cup { NoAngle }
  /\ sorterPos \in JostleTargets \cup { NoAngle }
  /\ selectorLog = << >>
  /\ sorterLog = << >>
  /\ settling = 0
  /\ led = FALSE
  /\ attached = { "selector", "sorter" }
  /\ sensorFound = TRUE
  /\ reading = NoReading
  /\ colorProfile = UNINITIALIZED
  /\ serial = << >>

JostleNext == jostleSorterNext \/ jostleSelectorNext

JostleSpec == JostleInit /\ [][JostleNext]_vars

\* ------------------------------------------------------------ properties
\* the distance the sketch computes from the reading held in loop()'s locals
\* to colors[k]
DistanceTo(k) == Distances[reading][k]

\* the number a float stands for, as a count of 2^-19: exact for 0.0 and for
\* every float from 16 up, which the table entries and the readings are
Exact(bits) == IF bits = 0 THEN 0 ELSE Mantissa(bits) * 2^(Exponent(bits) - 131)

\* d * d for 0 <= d < 2^27, as << high, low >> standing for high * 2^28 + low
Squared(d) ==
  LET d1 == d \div 16384
      d0 == d % 16384
      cross == 2 * d1 * d0
      low == (cross % 16384) * 16384 + d0 * d0
  IN  << d1 * d1 + (cross \div 16384) + (low \div 2^28), low % 2^28 >>

\* addition and order of such two-part numbers
Sum2(x, y) == << x[1] + y[1] + ((x[2] + y[2]) \div 2^28), (x[2] + y[2]) % 2^28 >>
Less2(x, y) == x[1] < y[1] \/ (x[1] = y[1] /\ x[2] < y[2])

\* the square of the Euclidean distance from the floats of reading r to the
\* floats of colors[k], in exact arithmetic (unit 2^-38)
ExactSquared(k, r) ==
  Sum2(Sum2(Squared(Magnitude(Exact(float(r[1])) - Exact(ProfileAt(k).red))),
            Squared(Magnitude(Exact(float(r[2])) - Exact(ProfileAt(k).green)))),
       Squared(Magnitude(Exact(float(r[3])) - Exact(ProfileAt(k).blue))))

ExactSquares == [r \in Readings |-> [k \in 0..(COLORS - 1) |-> ExactSquared(k, r)]]

\* the exact squared distance from the reading held in loop()'s locals to colors[k]
ExactTo(k) == ExactSquares[reading][k]

\* bestColorProfile has returned in this cycle
Classified == colorProfile # UNINITIALIZED

\* loop() has returned: a cycle is complete and its record is still held
CycleDone == pc = "loop" /\ Classified

\* C1: a reading equal to the reference point of a profile is classified as
\* that profile, whatever the profile's index
C1_ReferenceReadingReturnsItsProfile ==
  Classified =>
    \A k \in 0..(COLORS - 1) : reading = Reference(k) => colorProfile = k

\* the first profile's own reference point has been classified as another profile
C1_FirstProfileMissed ==
  Classified /\ reading = Reference(0) /\ colorProfile # 0

\* C2: no profile of the table is strictly nearer to the reading than the
\* profile returned
C2_ReturnedProfileIsNearest ==
  Classified =>
    \A k \in 0..(COLORS - 1) : ~ (DistanceTo(k) < DistanceTo(colorProfile))

\* a profile at distance 0 exists and the profile returned is farther
C2_NearerProfileExists ==
  Classified /\ \E k \in 0..(COLORS - 1) : DistanceTo(k) = 0 /\ DistanceTo(colorProfile) > 0

\* C3: every angle written to either servo in a cycle lies in 0..180
C3_AnglesWithinRange ==
  /\ \A n \in 1..Len(selectorLog) : selectorLog[n] \in 0..SELECTOR_LIMIT
  /\ \A n \in 1..Len(sorterLog) : sorterLog[n] \in 0..SORTER_LIMIT

\* the sorter has been written a negative angle while jostling
C3_NegativeAngleWritten ==
  /\ pc = "jostleSorter_down_delay"
  /\ sorterPos < 0

\* C4: a jostle with count = 0 writes exactly one angle, the target
C4_ZeroCountIsOneMove ==
  /\ (pc = "jostleSorter_returned" /\ frame.count = 0) => sorterLog = << frame.pos >>
  /\ (pc = "jostleSelector_returned" /\ frame.count = 0) => selectorLog = << frame.pos >>

\* jostleSelector has returned from a call with count = 0 having written nothing
C4_SelectorWroteNothing ==
  pc = "jostleSelector_returned" /\ frame.count = 0 /\ selectorLog = << >>

\* C5: when a jostle returns, the last angle written to its servo is the target
C5_EndsAtTarget ==
  /\ pc = "jostleSorter_returned" => sorterPos = frame.pos
  /\ pc = "jostleSelector_returned" => selectorPos = frame.pos

\* jostleSelector has returned with the selector still where it was before the call
C5_SelectorNotAtTarget ==
  pc = "jostleSelector_returned" /\ selectorPos # frame.pos

\* the angles the jostle of section 4.3 writes: count times (center + amplitude,
\* center - amplitude), then the target
RECURSIVE Swings(_, _, _)
Swings(center, amplitude, count) ==
  IF count = 0 THEN << >>
  ELSE << center + amplitude, center - amplitude >> \o Swings(center, amplitude, count - 1)

StatedJostle(target, amplitude, count, limit) ==
  LET center == IF target < limit THEN target ELSE target - amplitude
  IN  Swings(center, amplitude, count) \o << target >>

\* C6: a jostle writes count times (center + amplitude, center - amplitude) and
\* then the target, on the sorter and on the selector
C6_JostleSequence ==
  /\ pc = "jostleSorter_returned" =>
       sorterLog = StatedJostle(frame.pos, frame.jostle, frame.count, SORTER_LIMIT)
  /\ pc = "jostleSelector_returned" =>
       selectorLog = StatedJostle(frame.pos, frame.jostle, frame.count, SELECTOR_LIMIT)

\* jostleSelector has returned having written another sequence than the stated one
C6_SelectorSequenceDiffers ==
  /\ pc = "jostleSelector_returned"
  /\ frame.count > 0
  /\ selectorLog # StatedJostle(frame.pos, frame.jostle, frame.count, SELECTOR_LIMIT)

\* the floats of colors[a] and of colors[b] are at exactly the same distance
\* from the floats of the reading and no profile is strictly nearer
TiedNearest(a, b) ==
  /\ ExactTo(a) = ExactTo(b)
  /\ \A k \in 0..(COLORS - 1) : ~ Less2(ExactTo(k), ExactTo(a))

\* C7: of two profiles at the same, least distance from the reading, the one
\* earlier in the table is returned
C7_TieGoesToEarlier ==
  Classified =>
    \A a \in 0..(COLORS - 1) : \A b \in (a + 1)..(COLORS - 1) :
      TiedNearest(a, b) => colorProfile = a

\* a reading tied between two profiles has been classified as the later one,
\* for which the sketch computed the smaller float
C7_LaterOfTiedReturned ==
  /\ Classified
  /\ \E a \in 0..(COLORS - 1) : \E b \in (a + 1)..(COLORS - 1) :
       /\ TiedNearest(a, b)
       /\ colorProfile = b
       /\ DistanceTo(b) < DistanceTo(a)

\* C8: in a cycle whose reading is the reference point of a profile, delivery
\* writes that profile's slot angle to the sorter first, and the sorter is at
\* that angle when the cycle ends
C8_ReferenceReadingRoutedToItsSlot ==
  \A k \in 0..(COLORS - 1) :
    (Classified /\ reading = Reference(k)) =>
      /\ Len(sorterLog) > 0 => sorterLog[1] = ProfileAt(k).sorterPos
      /\ CycleDone => sorterPos = ProfileAt(k).sorterPos

\* a cycle has ended with the sorter at another slot than the one of the
\* profile whose reference point was read
C8_WrongSlot ==
  /\ CycleDone
  /\ \E k \in 0..(COLORS - 1) : reading = Reference(k) /\ sorterPos # ProfileAt(k).sorterPos

\* the profile Blue M&M, the last of the table
Blue == COLORS - 1

\* C9: in a cycle whose reading is the Blue reference point the Blue profile is
\* returned, the sorter jostle's centre is 180 - 4 = 176, and the sorter is
\* written 180, then ten times (180, 172), then 180, never more than 180
C9_BlueCycle ==
  (Classified /\ reading = Reference(Blue)) =>
    /\ colorProfile = Blue
    /\ ProfileAt(colorProfile).sorterPos = 180
    /\ \A n \in 1..Len(sorterLog) : sorterLog[n] <= 180
    /\ pc \in { "jostleSorter_up", "jostleSorter_up_delay", "jostleSorter_down",
                "jostleSorter_down_delay", "jostleSorter_final", "jostleSorter_final_delay" }
         => frame.centerPos = 176
    /\ CycleDone => sorterLog = << 180 >> \o Swings(176, 4, 10) \o << 180 >>

\* a cycle on the Blue reference point has ended after all 22 writes to the sorter
C9_BlueCycleDone ==
  /\ CycleDone
  /\ reading = Reference(Blue)
  /\ Len(sorterLog) = 22
  /\ sorterLog[2] = 180 /\ sorterLog[3] = 172

\* the angle of a slot: slot_index * (full_range / (slot_count - 1))
SlotAngle(slot, limit, positions) == slot * (limit \div (positions - 1))

sorterSlots ==
  << SORTER_POS_YELLOW, SORTER_POS_ORANGE, SORTER_POS_RED,
     SORTER_POS_GREEN, SORTER_POS_PURPLE, SORTER_POS_BLUE >>

selectorStations ==
  << SELECTOR_POS_HOPPER, SELECTOR_POS_SENSOR, SELECTOR_POS_SORTER >>

\* C10: the slot angles are slot * (limit / (positions - 1)), strictly
\* increasing, 0 at the first slot and 180 at the last, for the 6 sorter slots
\* and the 3 selector stations; the angles delivery writes are such angles
C10_SlotAngles ==
  /\ Len(sorterSlots) = SORTER_POSITIONS
  /\ Len(selectorStations) = SELECTOR_POSITIONS
  /\ \A n \in 1..SORTER_POSITIONS :
       sorterSlots[n] = SlotAngle(n - 1, SORTER_LIMIT, SORTER_POSITIONS)
  /\ \A n \in 1..SELECTOR_POSITIONS :
       selectorStations[n] = SlotAngle(n - 1, SELECTOR_LIMIT, SELECTOR_POSITIONS)
  /\ \A n \in 1..(SORTER_POSITIONS - 1) : sorterSlots[n] < sorterSlots[n + 1]
  /\ \A n \in 1..(SELECTOR_POSITIONS - 1) : selectorStations[n] < selectorStations[n + 1]
  /\ sorterSlots[1] = 0 /\ sorterSlots[SORTER_POSITIONS] = 180
  /\ selectorStations[1] = 0 /\ selectorStations[SELECTOR_POSITIONS] = 180
  /\ pc = "loop_sorter_delay" =>
       \E n \in 1..SORTER_POSITIONS : sorterPos = sorterSlots[n]
  /\ pc = "loop_release_delay" => selectorPos = selectorStations[SELECTOR_POSITIONS]

\* delivery has written the last slot's angle to the sorter and the last
\* station's angle to the selector
C10_LastSlotCommanded ==
  /\ pc = "loop_release_delay"
  /\ sorterPos = sorterSlots[SORTER_POSITIONS]
  /\ selectorPos = selectorStations[SELECTOR_POSITIONS]

\* the phase of section 4.4 that a statement of the sketch belongs to
PhaseOf(label) ==
  CASE label \in { "setup", "setup_tcs_begin", "setup_led", "setup_led_delay" } -> "SETUP"
    [] label \in { "loop", "loop_load_delay", "loop_jostleSelector", "jostleSelector",
                   "jostleSelector_out", "jostleSelector_out_delay",
                   "jostleSelector_back", "jostleSelector_back_delay" } -> "LOADING"
    [] label \in { "loop_present", "loop_present_delay" } -> "PRESENTING"
    [] label \in { "readColor", "readColor_led_on_delay", "readColor_start", "readColor_wait",
                   "readColor_getRGB", "readColor_stop", "readColor_led_off",
                   "readColor_led_off_delay" } -> "MEASURING"
    [] label \in { "loop_classify", "loop_logColor" } -> "ROUTING"
    [] label \in { "loop_sorter", "loop_sorter_delay", "loop_release", "loop_release_delay",
                   "loop_jostleSorter", "jostleSorter", "jostleSorter_up",
                   "jostleSorter_up_delay", "jostleSorter_down", "jostleSorter_down_delay",
                   "jostleSorter_final", "jostleSorter_final_delay" } -> "DELIVERING"
    [] OTHER -> "NONE"

\* the phase that follows a phase
PhaseAfter(phase) ==
  CASE phase = "SETUP" -> "LOADING"
    [] phase = "LOADING" -> "PRESENTING"
    [] phase = "PRESENTING" -> "MEASURING"
    [] phase = "MEASURING" -> "ROUTING"
    [] phase = "ROUTING" -> "DELIVERING"
    [] phase = "DELIVERING" -> "LOADING"
    [] OTHER -> "NONE"

\* the selector writes of LOADING: the hopper station, then the jostle there
RECURSIVE Repeated(_, _)
Repeated(writes, count) ==
  IF count = 0 THEN << >> ELSE writes \o Repeated(writes, count - 1)

LoadingWrites ==
  << SELECTOR_POS_HOPPER >> \o
  Repeated(<< SELECTOR_POS_HOPPER + SELECTOR_JOSTLE_DEGREES, SELECTOR_POS_HOPPER >>,
           SELECTOR_JOSTLE_COUNT)

\* what has been done when a phase is entered: the work of the phase before it
EnteredWith(phase) ==
  CASE phase = "LOADING" ->
         \/ selectorLog = << >> /\ sorterLog = << >> /\ ~ Classified
         \/ /\ selectorLog = LoadingWrites \o << SELECTOR_POS_SENSOR, SELECTOR_POS_SORTER >>
            /\ Len(sorterLog) = 2 + 2 * SORTER_JOSTLE_COUNT
            /\ Classified
    [] phase = "PRESENTING" -> selectorLog = LoadingWrites /\ sorterLog = << >> /\ ~ Classified
    [] phase = "MEASURING" ->
         selectorLog = LoadingWrites \o << SELECTOR_POS_SENSOR >> /\ sorterLog = << >>
    [] phase = "ROUTING" ->
         /\ reading \in Readings /\ led = FALSE /\ ~ Classified
         /\ selectorLog = LoadingWrites \o << SELECTOR_POS_SENSOR >> /\ sorterLog = << >>
    [] phase = "DELIVERING" ->
         /\ Classified /\ Len(serial) = 1 /\ sorterLog = << >>
         /\ selectorLog = LoadingWrites \o << SELECTOR_POS_SENSOR >>
    [] OTHER -> FALSE

\* C11: every step stays in its phase or goes to the next phase of the cycle
\* LOADING, PRESENTING, MEASURING, ROUTING, DELIVERING, LOADING, and a phase is
\* entered only when the work of the phase before it is done
C11_PhaseOrder ==
  [][ \/ PhaseOf(pc') = PhaseOf(pc)
      \/ /\ PhaseOf(pc') = PhaseAfter(PhaseOf(pc))
         /\ EnteredWith(PhaseOf(pc))' ]_vars

\* a cycle has passed through its five phases and LOADING is entered again
C11_CycleThroughPhases ==
  /\ CycleDone
  /\ PhaseOf(pc) = "LOADING"
  /\ selectorLog = LoadingWrites \o << SELECTOR_POS_SENSOR, SELECTOR_POS_SORTER >>
  /\ Len(serial) = 1

\* C12: when the selector has been written the sorter station, the sorter's
\* only write of the cycle is the slot angle of the profile matched in the cycle;
\* the sorter's jostle runs only with the selector at the sorter station
C12_DeliveryOrder ==
  /\ pc = "loop_release_delay" =>
       /\ Classified
       /\ selectorPos = SELECTOR_POS_SORTER
       /\ sorterLog = << ProfileAt(colorProfile).sorterPos >>
       /\ sorterPos = ProfileAt(colorProfile).sorterPos
  /\ pc = "loop_release" => sorterLog = << ProfileAt(colorProfile).sorterPos >>
  /\ Len(sorterLog) > 1 =>
       /\ selectorPos = SELECTOR_POS_SORTER
       /\ sorterLog[1] = ProfileAt(colorProfile).sorterPos

\* the selector has been written the sorter station after the sorter was sent
\* to a slot other than the first
C12_Released ==
  /\ pc = "loop_release_delay"
  /\ selectorPos = SELECTOR_POS_SORTER
  /\ sorterPos = SORTER_POS_GREEN

\* C13: when setup() has returned, a home angle has been written to the
\* selector and to the sorter
C13_HomedBeforeFirstCycle ==
  pc \notin { "setup", "setup_tcs_begin", "setup_led", "setup_led_delay" } =>
    selectorPos # NoAngle /\ sorterPos # NoAngle

\* loop() is entered for the first time and neither servo has been written
C13_NotHomed ==
  /\ pc = "loop"
  /\ ~ Classified
  /\ selectorPos = NoAngle
  /\ sorterPos = NoAngle

\* C14: once tcs.begin() has failed, no angle is written to a servo and no
\* sensor read is made
C14_NoCycleWithoutSensor ==
  (pc \notin { "setup", "setup_tcs_begin" } /\ ~ sensorFound) =>
    /\ selectorPos = NoAngle
    /\ sorterPos = NoAngle
    /\ PhaseOf(pc) = "SETUP"

\* a cycle has run to its end although tcs.begin() failed
C14_CycleWithoutSensor ==
  CycleDone /\ ~ sensorFound

\* C15: a servo is written, and the sensor is read, only when every delay
\* owed to a command before, the servo writes among them, has fully elapsed
C15_WaitBeforeNextCommand ==
  [][ (\/ selectorLog' # selectorLog
       \/ sorterLog' # sorterLog
       \/ pc = "readColor_getRGB")
        => settling = 0 ]_vars

\* the sensor has been read at the sensor station, after the selector's write
\* there and the jostle writes before it, with no delay left owed
C15_ReadAfterWait ==
  /\ pc = "readColor_stop"
  /\ reading # NoReading
  /\ selectorPos = SELECTOR_POS_SENSOR
  /\ Len(selectorLog) = 2 * SELECTOR_JOSTLE_COUNT + 2
  /\ settling = 0

\* the statements of readColor, and the statement after it
Measuring ==
  { "readColor", "readColor_led_on_delay", "readColor_start", "readColor_wait",
    "readColor_getRGB", "readColor_stop", "readColor_led_off", "readColor_led_off_delay" }

\* C17: from the call of readColor to its return the selector's last write is
\* the sensor station (90), the write before it is the hopper station, left by
\* one move, and no servo is written: the logs stay as the move to 90 left them
C17_AtSensorStationWhileReading ==
  pc \in Measuring \cup { "loop_classify" } =>
    /\ selectorPos = SELECTOR_POS_SENSOR
    /\ selectorPos = 90
    /\ Len(selectorLog) >= 2
    /\ selectorLog[Len(selectorLog)] = SELECTOR_POS_SENSOR
    /\ selectorLog[Len(selectorLog) - 1] = SELECTOR_POS_HOPPER
    /\ selectorLog = LoadingWrites \o << SELECTOR_POS_SENSOR >>
    /\ sorterLog = << >>

\* the sensor is about to be read with the selector at the sensor station
C17_ReadAtSensorStation ==
  /\ pc = "readColor_getRGB"
  /\ selectorPos = SELECTOR_POS_SENSOR
  /\ led

\* the statements of readColor between the LED's switching on and its switching off
LedOnAt ==
  { "readColor_led_on_delay", "readColor_start", "readColor_wait",
    "readColor_getRGB", "readColor_stop", "readColor_led_off" }

\* C18: the LED is on from enableSensorLed(true) to enableSensorLed(false, 100)
\* of readColor, around the read, and off at every other statement: at every
\* servo write and at the start and the end of every cycle
C18_LedOnlyWhileMeasuring ==
  PhaseOf(pc) # "SETUP" =>
    /\ led <=> pc \in LedOnAt
    /\ pc = "loop" => ~ led

\* the reading has been obtained with the LED on
C18_LedOnAfterRead ==
  /\ pc = "readColor_stop"
  /\ led
  /\ reading \in ReferenceReadings

\* C19: from every state the end of a cycle is reached again (so a cycle that
\* has begun is completed, whatever the reading, and LOADING is entered again
\* and again); a jostle loop runs only while i < count and has made count
\* iterations when the cycle ends
C19_CyclesComplete ==
  /\ []<>CycleDone
  /\ [](/\ pc \in { "jostleSorter_up", "jostleSelector_out" } => frame.i < frame.count
        /\ CycleDone => frame.i = frame.count)

\* the sorter jostle of a cycle has made its last iteration and the cycle has ended
C19_JostleLoopsEnded ==
  /\ CycleDone
  /\ frame.i = frame.count
  /\ frame.count = SORTER_JOSTLE_COUNT

\* the first of the nearest profiles among those after colors[k] in the table
FirstNearestAfter(k) ==
  CHOOSE j \in (k + 1)..(COLORS - 1) :
    /\ \A m \in (k + 1)..(COLORS - 1) : DistanceTo(j) <= DistanceTo(m)
    /\ \A m \in (k + 1)..(j - 1) : DistanceTo(m) > DistanceTo(j)

\* C20: a best distance of 0 counts as "no best yet", so the profile at hand is
\* taken whatever its distance; the result is always a table entry, and a
\* reading equal to the reference point of a profile that is not the last one
\* (and that no other profile shares) is classified as the first of the
\* nearest profiles after it
C20_ZeroIsNoBestYet ==
  Classified =>
    /\ colorProfile \in 0..(COLORS - 1)
    /\ \A k \in 0..(COLORS - 1) : TakesProfile(DistanceTo(k), 0)
    /\ \A k \in 0..(COLORS - 2) :
         (reading = Reference(k) /\ \A m \in 0..(COLORS - 1) : m # k => Reference(m) # Reference(k))
           => colorProfile = FirstNearestAfter(k)

\* the reference point of Yellow Skittle has been classified as Red Skittle,
\* the nearest of the profiles after it
C20_LaterProfileReturned ==
  /\ Classified
  /\ reading = Reference(1)
  /\ colorProfile = 5
  /\ FirstNearestAfter(1) = 5

====
